---- MODULE Spec2Model ----
(***************************************************************************)
(* Project/task tracker API in its two authenticator variants:             *)
(*   "token"   : src/server.js          (JWT bearer tokens, role guards)   *)
(*   "session" : src/unnamed/part_000   (express-session cookies)          *)
(* One behaviour runs one variant (chosen in Init).  Handlers are split at *)
(* the awaits between which another request can change what they read.     *)
(***************************************************************************)
EXTENDS Integers, FiniteSets, Sequences, TLC

VARIABLES
    variant,        \* which server file is running
    budget,         \* how many requests this behaviour may receive
    users,          \* User table: sequence of rows, row i has id i
    projects,       \* Project table: set of rows
    tasks,          \* Task table: set of rows
    nextProjectId,  \* autoincrement counter of Project
    nextTaskId,     \* autoincrement counter of Task
    sessions,       \* express-session MemoryStore: sid -> session data
    nextSid,        \* next fresh session id
    nextUserId,     \* autoincrement counter of User
    issued,         \* tokens handed out by jwt.sign (what a client can hold)
    now,            \* clock
    inflight,       \* requests suspended at an await
    nreq,           \* number of requests received
    resp,           \* the latest response sent
    loggedOut,      \* history: credentials that a logout request carried
    failSeen,       \* history: (cause, status, body) of failed logins
    creatorRole     \* history: project id -> stored role of the creating identity

vars == <<variant, budget, users, projects, tasks, nextProjectId, nextTaskId, sessions,
          nextSid, nextUserId, issued, now, inflight, nreq, resp, loggedOut,
          failSeen, creatorRole>>

----------------------------------------------------------------------------
\* Bounds of the model
MaxRequests == 2       \* requests of a behaviour that starts from an empty store
MaxAuthRequests == 3   \* requests of a behaviour of SpecAuth
MaxCrudRequests == 3   \* requests of a behaviour of SpecCrud
MaxFlowRequests == 3   \* requests of a behaviour of SpecFlow
MaxInputRequests == 2  \* requests of a behaviour of SpecInput
MaxFaultRequests == 2  \* requests of a behaviour of SpecFault
MaxInFlight == 2       \* handlers suspended at an await at the same time
MaxTime == 1           \* clock ticks

\* Token and session lifetimes, in clock ticks
\* (JWT_EXPIRES_IN; cookie.maxAge of the session middleware)
TokenTTL == 1
SessionTTL == 1

Names == {"ann"}
Emails == {"a@x.com", "b@x.com"}
\* Login is also tried with an email that nobody registers
LoginEmails == Emails \cup {"c@x.com"}
Passwords == {"pw1", "pw2"}
Roles == {"employee", "manager", "admin"}
Priorities == {"low", "medium", "high"}
Absent == "absent"
RoleInputs == {Absent, "manager", "admin"}
StatusInputs == {Absent, "done"}
PriorityInputs == {Absent, "high"}
PathIds == {1, 2}
Null == 0
\* A user id field that the request body does not supply
AbsentId == -1

\* The bodies PUT /api/tasks/:id is sent with
NoBody ==
    [title |-> Absent, description |-> Absent, status |-> Absent,
     priority |-> Absent, assignedUserId |-> AbsentId]
TaskBody(fields) == fields @@ NoBody
TaskBodies ==
    {NoBody,
     TaskBody([status |-> "done"]),
     TaskBody([priority |-> "high"]),
     TaskBody([status |-> "done", priority |-> "high"]),
     TaskBody([assignedUserId |-> 2]),
     TaskBody([status |-> "done", assignedUserId |-> 2]),
     TaskBody([title |-> "t2", description |-> "d2"])}

----------------------------------------------------------------------------
\* External collaborators

\* bcrypt.hash / bcrypt.compare: one-way, the hash is not the plaintext
Hash(pw) == "$2a$10$" \o pw
Compare(pw, h) == h = Hash(pw)

\* jwt.sign(payload, secret, {expiresIn}) and jwt.verify(token, secret)
Sign(payload) ==
    [id |-> payload.id, name |-> payload.name, email |-> payload.email,
     role |-> payload.role, exp |-> now + TokenTTL, sig |-> "ok"]
Verify(tok) == tok.sig = "ok" /\ now < tok.exp

\* What a client can put in the Authorization header: nothing, something that
\* is no token of this server, or a token the server handed out.
NoToken == [id |-> 0, name |-> "", email |-> "", role |-> "", exp |-> 0, sig |-> "none"]
BadToken == [id |-> 0, name |-> "", email |-> "", role |-> "admin", exp |-> MaxTime + 1, sig |-> "bad"]
Headers == {NoToken, BadToken} \cup {i.tok : i \in issued}

\* What a client can send as session cookie: none (0), a value the server
\* never issued (-1), or a session id the server issued.
NoCookie == 0
BadCookie == -1
Cookies == {NoCookie, BadCookie} \cup (1..(nextSid - 1))

----------------------------------------------------------------------------
\* The store (./database/setup: Sequelize models User, Project, Task)

NoUser == [id |-> Null, name |-> "", email |-> "", password |-> "", role |-> ""]

\* A lookup that never finds the row
UserFindOneMissing(email) == NoUser

\* User.findOne({ where: { email } })
UserFindOne(email) ==
    IF \E u \in users : u.email = email
    THEN CHOOSE u \in users : u.email = email
    ELSE NoUser

\* User.findByPk(id)
UserFindByPk(id) ==
    IF \E u \in users : u.id = id
    THEN CHOOSE u \in users : u.id = id
    ELSE NoUser

\* A store without the constraint
UserInsertAlways(email) == TRUE

\* The unique constraint on User.email: an insert of a stored email is rejected
UserInsertAllowed(email) == \A u \in users : u.email # email

\* The id the store assigns to a new User row
UserNewId == nextUserId

\* The role column's default, used when create() is given no role
UserDefaultRole == "employee"

\* The role and priority columns: the store takes any string
RoleAccepted(role) == TRUE
PriorityAccepted(priority) == TRUE

\* Task.create with a projectId: the store checks no reference on insert
TaskInsertAllowed(projectId) == TRUE

ProjectExists(id) == \E p \in projects : p.id = id
TaskExists(id) == \E t \in tasks : t.id = id

\* A destroy that empties the table
DestroyAll(table, id) == {}

\* <Model>.destroy({ where: { id } }): the table without the row
Destroy(table, id) == {r \in table : r.id # id}

\* The Task table after the delete of a Project: the store defines no
\* cascade, the Task rows of the project stay as they are
TasksAfterProjectDelete(table, projectId) == table

\* A request body's fields applied to a row: a field the body does not
\* supply keeps its value
NotSupplied(f) == IF f = "assignedUserId" THEN AbsentId ELSE Absent

Patch(row, body) ==
    [f \in DOMAIN row |->
        IF f \in DOMAIN body /\ body[f] # NotSupplied(f) THEN body[f] ELSE row[f]]

\* UPDATE ... WHERE id = <id>: a row that is gone is not touched, and nothing
\* is raised for it
UpdateWhere(table, id, body) ==
    {IF r.id = id THEN Patch(r, body) ELSE r : r \in table}

\* <Model>.update(values, { where: { id } }): the number of rows it reports.
\* Undefined values are dropped, and an update left with nothing but the
\* update timestamp to write is skipped and reports 0 rows.
UpdateCount(table, id, body) ==
    IF \A f \in DOMAIN body : body[f] = NotSupplied(f) THEN 0
    ELSE Cardinality({r \in table : r.id = id})

\* The value of an optional body field with a default
OrDefault(v, d) == IF v = Absent THEN d ELSE v

\* A Project row that belongs to nobody
NewProjectUnowned(id, statusIn, userId) ==
    [id |-> id, status |-> OrDefault(statusIn, "active"), managerId |-> Null]

\* Project.create({ ..., status, managerId: req.user.id })
NewProject(id, statusIn, userId) ==
    [id |-> id, status |-> OrDefault(statusIn, "active"), managerId |-> userId]

----------------------------------------------------------------------------
\* Responses

NoResp ==
    [op |-> "-", status |-> 0, body |-> "-", cred |-> "-", role |-> "-",
     revoked |-> FALSE, changed |-> FALSE, schanged |-> FALSE, found |-> "-",
     dup |-> "-", id |-> 0, cause |-> "-", applied |-> TRUE, uid |-> 0,
     statusIn |-> "-", managerId |-> 0, pstatus |-> "-", invalid |-> FALSE,
     fields |-> {}]

Response(fields) == fields @@ NoResp

StoreChanged == <<users, projects, tasks>>' # <<users, projects, tasks>>
\* The session table resolves other references, or resolves one to another
\* user (the renewal of a session's expiry and the removal of an expired
\* session are not counted)
SessionOwners(table) ==
    [s \in {x \in DOMAIN table : now < table[x].expires} |-> table[s].userId]
SessionsChanged == SessionOwners(sessions') # SessionOwners(sessions)

\* History: the write of an update request left the table as the request
\* body asks: the row of that id carries every supplied field's value and
\* every other field's prior value, and no other row differs
UpdateApplied(before, after, id, body) ==
    after = {IF r.id = id THEN Patch(r, body) ELSE r : r \in before}

\* History: whether a User row holds the email
EmailStored(email) == \E u \in users : u.email = email

\* A request arrives: the model bounds the number of requests
Arrive == nreq < budget /\ nreq' = nreq + 1
Suspend == Arrive /\ Cardinality(inflight) < MaxInFlight

YesNo(b) == IF b THEN "yes" ELSE "no"

\* The server starts with an empty store
InitEmpty(max) ==
    /\ variant \in {"token", "session"}
    /\ budget = max
    /\ users = {} /\ projects = {} /\ tasks = {}
    /\ nextUserId = 1 /\ nextProjectId = 1 /\ nextTaskId = 1
    /\ sessions = <<>> /\ nextSid = 1
    /\ issued = {} /\ now = 0 /\ inflight = {} /\ nreq = 0
    /\ resp = NoResp /\ loggedOut = {} /\ failSeen = {} /\ creatorRole = <<>>

\* The store after two registrations (a state Spec reaches): in the token
\* variant an admin and an employee, each holding the token register signed;
\* in the session variant two users of the default role, the first logged in
\* under session 1.
RegisteredUser(id, email, role) ==
    [id |-> id, name |-> "ann", email |-> email, password |-> Hash("pw1"), role |-> role]

Registered(v) ==
    IF v = "token"
    THEN {RegisteredUser(1, "a@x.com", "admin"), RegisteredUser(2, "b@x.com", "employee")}
    ELSE {RegisteredUser(1, "a@x.com", UserDefaultRole),
          RegisteredUser(2, "b@x.com", UserDefaultRole)}

InitRegistered(max) ==
    /\ variant \in {"token", "session"}
    /\ budget = max
    /\ users = Registered(variant) /\ projects = {} /\ tasks = {}
    /\ nextUserId = 3 /\ nextProjectId = 1 /\ nextTaskId = 1
    /\ now = 0 /\ inflight = {} /\ nreq = 0
    /\ issued = IF variant = "token"
                THEN {[tok |-> Sign([id |-> u.id, name |-> u.name, email |-> u.email,
                                     role |-> u.role]),
                       roleAtIssue |-> u.role, via |-> "register"] : u \in Registered(variant)}
                ELSE {}
    /\ sessions = IF variant = "session"
                  THEN 1 :> [userId |-> 1, userName |-> "ann", userEmail |-> "a@x.com",
                             expires |-> SessionTTL]
                  ELSE <<>>
    /\ nextSid = IF variant = "session" THEN 2 ELSE 1
    /\ resp = NoResp /\ loggedOut = {} /\ failSeen = {} /\ creatorRole = <<>>

\* The server starts on an empty store or on one that holds users
Init == InitEmpty(MaxRequests) \/ InitRegistered(MaxRequests)

InitAuth == InitRegistered(MaxAuthRequests)
InitCrud == InitRegistered(MaxCrudRequests)
InitFlow == InitEmpty(MaxFlowRequests)
InitInput == InitRegistered(MaxInputRequests)
InitFault == InitRegistered(MaxFaultRequests)

\* A suspended handler: the locals it holds across its await
NoReq ==
    [rid |-> 0, op |-> "-", pc |-> "-", name |-> "", email |-> "",
     password |-> "", role |-> "", uid |-> 0, id |-> 0, status |-> Absent,
     priority |-> Absent, sid |-> 0, loaded |-> 0, stored |-> "-", cred |-> "-",
     crole |-> "-", revoked |-> FALSE, changed |-> FALSE, title |-> Absent,
     description |-> Absent, assignedUserId |-> AbsentId, applied |-> TRUE]

Request(fields) == fields @@ [NoReq EXCEPT !.rid = nreq + 1]

\* req.body of a suspended PUT /api/tasks/:id
ReqBody(r) ==
    [title |-> r.title, description |-> r.description, status |-> r.status,
     priority |-> r.priority, assignedUserId |-> r.assignedUserId]

----------------------------------------------------------------------------
\* Token variant: middleware (src/server.js)

\* An authenticateJWT that refuses the tokens logout was called with
authenticateJWTRevoking(tok) ==
    IF tok.sig = "none" THEN 401
    ELSE IF Verify(tok) /\ tok \notin loggedOut THEN 0
    ELSE 401

\* authenticateJWT: 0 stands for next(), otherwise the status sent
authenticateJWT(tok) ==
    IF tok.sig = "none" THEN 401
    ELSE IF Verify(tok) THEN 0
    ELSE 401

authenticateJWTBody(tok) ==
    IF tok.sig = "none" THEN "Missing or invalid token" ELSE "Invalid or expired token"

requireManager(user) ==
    IF user.role = "manager" \/ user.role = "admin" THEN 0 ELSE 403

requireAdmin(user) ==
    IF user.role = "admin" THEN 0 ELSE 403

\* The role middleware each route is mounted with
JwtNeed(op) ==
    CASE op \in {"createProject", "updateProject", "createTask", "deleteTask"} -> "manager"
      [] op \in {"listUsers", "deleteProject"} -> "admin"
      [] OTHER -> "any"

\* The middleware chain of a route; need is "any", "manager" or "admin"
JwtChain(tok, need) ==
    IF authenticateJWT(tok) # 0 THEN authenticateJWT(tok)
    ELSE IF need = "manager" THEN requireManager(tok)
    ELSE IF need = "admin" THEN requireAdmin(tok)
    ELSE 0

JwtChainBody(tok, need) ==
    IF authenticateJWT(tok) # 0 THEN authenticateJWTBody(tok)
    ELSE IF need = "manager" THEN "Managers or admins only"
    ELSE "Admins only"

\* History: how the presented token stands when the request arrives
JwtCred(tok) ==
    IF tok.sig = "none" THEN "none"
    ELSE IF tok.sig = "bad" THEN "bad"
    ELSE IF now >= tok.exp THEN "expired"
    ELSE "ok"

JwtSeen(tok) ==
    [cred |-> JwtCred(tok),
     role |-> IF JwtCred(tok) = "ok" THEN tok.role ELSE "-",
     uid |-> IF JwtCred(tok) = "ok" THEN tok.id ELSE Null,
     revoked |-> tok \in loggedOut]

JwtReject(op, tok, need) ==
    Response([op |-> op, status |-> JwtChain(tok, need),
              body |-> JwtChainBody(tok, need)] @@ JwtSeen(tok))

\* A query for whole User rows
AllUserColumns == {"id", "name", "email", "password", "role"}

\* The User columns each response serializes: the user object register and
\* login build, the attributes option of the User queries, and the attributes
\* of the manager / assignedUser includes
JwtUserSummary == {"id", "name", "email", "role"}
JwtUserAttributes == {"id", "name", "email", "role"}
JwtIncludeAttributes == {"id", "name", "email"}

JwtUserFields(op) ==
    CASE op \in {"profile", "listUsers"} -> JwtUserAttributes
      [] op \in {"listProjects", "getProject", "listTasks"} -> JwtIncludeAttributes
      [] OTHER -> {}

----------------------------------------------------------------------------
\* Token variant: auth routes

\* History: "yes" when the email was stored as the register request arrived,
\* "raced" when it was stored only by the time of the insert, "no" otherwise
Dup(r) ==
    IF r.stored = "yes" THEN "yes"
    ELSE IF EmailStored(r.email) THEN "raced"
    ELSE "no"

\* A register handler that signs every token as an admin's
JwtRegisterClaimsAdmin(newUser, r) ==
    [id |-> newUser.id, name |-> r.name, email |-> r.email, role |-> "admin"]

\* The claims register signs: the new row's id and the request's fields
JwtRegisterClaims(newUser, r) ==
    [id |-> newUser.id, name |-> r.name, email |-> r.email, role |-> r.role]

JwtRegisterFind(name, email, password, roleIn) ==
    /\ variant = "token"
    /\ UNCHANGED <<variant, budget, users, projects, tasks, nextProjectId, nextTaskId,
                   sessions, nextSid, nextUserId, issued, now, loggedOut,
                   failSeen, creatorRole>>
    /\ LET role == OrDefault(roleIn, "employee")
           exists == UserFindOne(email)
       IN IF exists # NoUser
          THEN /\ Arrive
               /\ UNCHANGED inflight
               /\ resp' = Response([op |-> "register", status |-> 400,
                                    body |-> "Email already exists",
                                    dup |-> YesNo(EmailStored(email))])
          ELSE /\ Suspend
               /\ inflight' = inflight \cup
                    {Request([op |-> "register", pc |-> "create", name |-> name,
                              email |-> email, password |-> password, role |-> role,
                              stored |-> YesNo(EmailStored(email))])}
               /\ UNCHANGED resp

JwtRegisterCreate(r) ==
    /\ variant = "token" /\ r.op = "register" /\ r.pc = "create"
    /\ inflight' = inflight \ {r}
    /\ UNCHANGED <<variant, budget, projects, tasks, nextProjectId, nextTaskId, sessions,
                   nextSid, now, nreq, loggedOut, failSeen, creatorRole>>
    /\ IF UserInsertAllowed(r.email) /\ RoleAccepted(r.role)
       THEN LET newUser == [id |-> UserNewId, name |-> r.name, email |-> r.email,
                            password |-> Hash(r.password), role |-> r.role]
                token == Sign(JwtRegisterClaims(newUser, r))
            IN /\ users' = users \cup {newUser}
               /\ nextUserId' = nextUserId + 1
               /\ issued' = issued \cup {[tok |-> token, roleAtIssue |-> newUser.role,
                                            via |-> "register"]}
               /\ resp' = Response([op |-> "register", status |-> 201,
                                    body |-> "Registration successful",
                                    dup |-> Dup(r), id |-> newUser.id,
                                    invalid |-> r.role \notin Roles,
                                    fields |-> JwtUserSummary,
                                    changed |-> StoreChanged])
       ELSE /\ UNCHANGED <<users, nextUserId, issued>>
            /\ resp' = Response([op |-> "register", status |-> 500,
                                 body |-> "Registration failed", dup |-> Dup(r),
                                 invalid |-> r.role \notin Roles])

\* A login that tells an unknown email apart
JwtLoginNoUserLeaky == [status |-> 404, body |-> "User not found"]

\* The two failures of login
JwtLoginNoUser == [status |-> 401, body |-> "Invalid credentials"]
JwtLoginBadPassword == [status |-> 401, body |-> "Invalid credentials"]

JwtLoginFind(email, password) ==
    /\ variant = "token"
    /\ UNCHANGED <<variant, budget, users, projects, tasks, nextProjectId, nextTaskId,
                   sessions, nextSid, nextUserId, issued, now, loggedOut, creatorRole>>
    /\ LET user == UserFindOne(email)
       IN IF user = NoUser
          THEN /\ Arrive
               /\ UNCHANGED inflight
               /\ resp' = Response([op |-> "login", cause |-> "noUser",
                                    changed |-> StoreChanged,
                                    schanged |-> SessionsChanged] @@ JwtLoginNoUser)
               /\ failSeen' = failSeen \cup
                    {[cause |-> "noUser", status |-> resp'.status, body |-> resp'.body]}
          ELSE /\ Suspend
               /\ inflight' = inflight \cup
                    {Request([op |-> "login", pc |-> "compare", uid |-> user.id,
                              password |-> password])}
               /\ UNCHANGED <<resp, failSeen>>

JwtLoginCompare(r) ==
    /\ variant = "token" /\ r.op = "login" /\ r.pc = "compare"
    /\ inflight' = inflight \ {r}
    /\ UNCHANGED <<variant, budget, users, projects, tasks, nextProjectId, nextTaskId,
                   sessions, nextSid, nextUserId, now, nreq, loggedOut, creatorRole>>
    /\ LET user == UserFindByPk(r.uid)
       IN IF ~Compare(r.password, user.password)
          THEN /\ UNCHANGED issued
               /\ resp' = Response([op |-> "login", cause |-> "badPassword",
                                    changed |-> StoreChanged,
                                    schanged |-> SessionsChanged] @@ JwtLoginBadPassword)
               /\ failSeen' = failSeen \cup
                    {[cause |-> "badPassword", status |-> resp'.status, body |-> resp'.body]}
          ELSE LET token == Sign([id |-> user.id, name |-> user.name,
                                  email |-> user.email, role |-> user.role])
               IN /\ issued' = issued \cup {[tok |-> token, roleAtIssue |-> user.role,
                                               via |-> "login"]}
                  /\ UNCHANGED failSeen
                  /\ resp' = Response([op |-> "login", status |-> 200,
                                       body |-> "Login successful", id |-> user.id,
                                       fields |-> JwtUserSummary,
                                       changed |-> StoreChanged])

\* POST /api/logout has no middleware and reads nothing of the request
JwtLogout(tok) ==
    /\ variant = "token" /\ Arrive
    /\ loggedOut' = IF tok.sig = "ok" THEN loggedOut \cup {tok} ELSE loggedOut
    /\ UNCHANGED <<variant, budget, users, projects, tasks, nextProjectId, nextTaskId,
                   sessions, nextSid, nextUserId, issued, now, inflight, failSeen,
                   creatorRole>>
    /\ resp' = Response([op |-> "logout", status |-> 200,
                         body |-> "Logout successful (JWT stateless)",
                         changed |-> StoreChanged] @@ JwtSeen(tok))

----------------------------------------------------------------------------
\* Token variant: user, project and task routes

\* The error text of a read that finds nothing
NotFoundBody(op) == IF op = "profile" THEN "User not found" ELSE "Project not found"

\* A route that only reads: found says whether what it looks up exists
JwtRead(op, tok, need, found) ==
    /\ variant = "token" /\ Arrive
    /\ UNCHANGED <<variant, budget, users, projects, tasks, nextProjectId, nextTaskId,
                   sessions, nextSid, nextUserId, issued, now, inflight, loggedOut,
                   failSeen, creatorRole>>
    /\ resp' = IF JwtChain(tok, need) # 0 THEN JwtReject(op, tok, need)
               ELSE IF ~found
               THEN Response([op |-> op, status |-> 404, body |-> NotFoundBody(op)]
                             @@ JwtSeen(tok))
               ELSE Response([op |-> op, status |-> 200, body |-> "ok",
                              fields |-> JwtUserFields(op)] @@ JwtSeen(tok))

JwtProfile(tok) == JwtRead("profile", tok, JwtNeed("profile"), TRUE)
JwtListUsers(tok) == JwtRead("listUsers", tok, JwtNeed("listUsers"), TRUE)
JwtListProjects(tok) == JwtRead("listProjects", tok, JwtNeed("listProjects"), TRUE)
JwtGetProject(tok, id) == JwtRead("getProject", tok, JwtNeed("getProject"), ProjectExists(id))
JwtListTasks(tok, id) == JwtRead("listTasks", tok, JwtNeed("listTasks"), TRUE)

JwtCreateProject(tok, statusIn) ==
    /\ variant = "token" /\ Arrive
    /\ UNCHANGED <<variant, budget, users, tasks, nextTaskId, sessions, nextSid, nextUserId,
                   issued, now, inflight, loggedOut, failSeen>>
    /\ IF JwtChain(tok, JwtNeed("createProject")) # 0
       THEN /\ UNCHANGED <<projects, nextProjectId, creatorRole>>
            /\ resp' = JwtReject("createProject", tok, JwtNeed("createProject"))
       ELSE /\ projects' = projects \cup {NewProject(nextProjectId, statusIn, tok.id)}
            /\ nextProjectId' = nextProjectId + 1
            /\ creatorRole' = (nextProjectId :> tok.role) @@ creatorRole
            /\ resp' = Response([op |-> "createProject", status |-> 201, body |-> "ok",
                                 id |-> nextProjectId, changed |-> StoreChanged,
                                 uid |-> tok.id, statusIn |-> statusIn,
                                 managerId |-> NewProject(nextProjectId, statusIn, tok.id).managerId,
                                 pstatus |-> NewProject(nextProjectId, statusIn, tok.id).status]
                                @@ JwtSeen(tok))

JwtUpdateProjectFind(tok, id, statusIn) ==
    /\ variant = "token"
    /\ UNCHANGED <<variant, budget, users, projects, tasks, nextProjectId, nextTaskId,
                   sessions, nextSid, nextUserId, issued, now, loggedOut, failSeen,
                   creatorRole>>
    /\ IF JwtChain(tok, JwtNeed("updateProject")) # 0
       THEN /\ Arrive /\ UNCHANGED inflight
            /\ resp' = JwtReject("updateProject", tok, JwtNeed("updateProject"))
       ELSE IF ~ProjectExists(id)
       THEN /\ Arrive /\ UNCHANGED inflight
            /\ resp' = Response([op |-> "updateProject", status |-> 404,
                                 body |-> "Project not found", found |-> "no"]
                                @@ JwtSeen(tok))
       ELSE /\ Suspend
            /\ inflight' = inflight \cup
                 {Request([op |-> "updateProject", pc |-> "save", id |-> id,
                           status |-> statusIn, cred |-> JwtSeen(tok).cred,
                           crole |-> JwtSeen(tok).role, uid |-> JwtSeen(tok).uid,
                           revoked |-> JwtSeen(tok).revoked])}
            /\ UNCHANGED resp

JwtUpdateProjectSave(r) ==
    /\ variant = "token" /\ r.op = "updateProject" /\ r.pc = "save"
    /\ inflight' = inflight \ {r}
    /\ projects' = UpdateWhere(projects, r.id, [status |-> r.status])
    /\ UNCHANGED <<variant, budget, users, tasks, nextProjectId, nextTaskId, sessions,
                   nextSid, nextUserId, issued, now, nreq, loggedOut, failSeen,
                   creatorRole>>
    /\ resp' = Response([op |-> "updateProject", status |-> 200, body |-> "ok",
                         found |-> YesNo(ProjectExists(r.id)), cred |-> r.cred,
                         role |-> r.crole, uid |-> r.uid, revoked |-> r.revoked,
                         changed |-> StoreChanged])

JwtDeleteProject(tok, id) ==
    /\ variant = "token" /\ Arrive
    /\ UNCHANGED <<variant, budget, users, nextProjectId, nextTaskId, sessions,
                   nextSid, nextUserId, issued, now, inflight, loggedOut, failSeen,
                   creatorRole>>
    /\ IF JwtChain(tok, JwtNeed("deleteProject")) # 0
       THEN /\ UNCHANGED <<projects, tasks>>
            /\ resp' = JwtReject("deleteProject", tok, JwtNeed("deleteProject"))
       ELSE /\ projects' = Destroy(projects, id)
            /\ tasks' = TasksAfterProjectDelete(tasks, id)
            /\ resp' = Response(
                 [op |-> "deleteProject", id |-> id,
                  status |-> IF ProjectExists(id) THEN 200 ELSE 404,
                  body |-> IF ProjectExists(id) THEN "Project deleted" ELSE "Project not found",
                  found |-> YesNo(ProjectExists(id)), changed |-> StoreChanged]
                 @@ JwtSeen(tok))

JwtCreateTask(tok, projectId, priorityIn) ==
    /\ variant = "token" /\ Arrive
    /\ UNCHANGED <<variant, budget, users, projects, nextProjectId, sessions, nextSid,
                   nextUserId, issued, now, inflight, loggedOut, failSeen, creatorRole>>
    /\ IF JwtChain(tok, JwtNeed("createTask")) # 0
       THEN /\ UNCHANGED <<tasks, nextTaskId>>
            /\ resp' = JwtReject("createTask", tok, JwtNeed("createTask"))
       ELSE /\ TaskInsertAllowed(projectId)
            /\ PriorityAccepted(OrDefault(priorityIn, "medium"))
            /\ tasks' = tasks \cup
                 {[id |-> nextTaskId, title |-> "t1", description |-> "d1",
                   projectId |-> projectId, assignedUserId |-> Null,
                   priority |-> OrDefault(priorityIn, "medium"), status |-> "pending"]}
            /\ nextTaskId' = nextTaskId + 1
            /\ resp' = Response([op |-> "createTask", status |-> 201, body |-> "ok",
                                 id |-> nextTaskId, changed |-> StoreChanged,
                                 found |-> YesNo(ProjectExists(projectId)),
                                 invalid |-> OrDefault(priorityIn, "medium") \notin Priorities]
                                @@ JwtSeen(tok))

JwtUpdateTaskFind(tok, id, body) ==
    /\ variant = "token"
    /\ UNCHANGED <<variant, budget, users, projects, tasks, nextProjectId, nextTaskId,
                   sessions, nextSid, nextUserId, issued, now, loggedOut, failSeen,
                   creatorRole>>
    /\ IF JwtChain(tok, JwtNeed("updateTask")) # 0
       THEN /\ Arrive /\ UNCHANGED inflight
            /\ resp' = JwtReject("updateTask", tok, JwtNeed("updateTask"))
       ELSE IF ~TaskExists(id)
       THEN /\ Arrive /\ UNCHANGED inflight
            /\ resp' = Response([op |-> "updateTask", status |-> 404,
                                 body |-> "Task not found", found |-> "no"]
                                @@ JwtSeen(tok))
       ELSE /\ Suspend
            /\ inflight' = inflight \cup
                 {Request([op |-> "updateTask", pc |-> "save", id |-> id,
                           title |-> body.title, description |-> body.description,
                           status |-> body.status, priority |-> body.priority,
                           assignedUserId |-> body.assignedUserId,
                           cred |-> JwtSeen(tok).cred,
                           crole |-> JwtSeen(tok).role, uid |-> JwtSeen(tok).uid,
                           revoked |-> JwtSeen(tok).revoked])}
            /\ UNCHANGED resp

JwtUpdateTaskSave(r) ==
    /\ variant = "token" /\ r.op = "updateTask" /\ r.pc = "save"
    /\ inflight' = inflight \ {r}
    /\ PriorityAccepted(r.priority)
    /\ tasks' = UpdateWhere(tasks, r.id, ReqBody(r))
    /\ UNCHANGED <<variant, budget, users, projects, nextProjectId, nextTaskId, sessions,
                   nextSid, nextUserId, issued, now, nreq, loggedOut, failSeen,
                   creatorRole>>
    /\ resp' = Response([op |-> "updateTask", status |-> 200, body |-> "ok",
                         found |-> YesNo(TaskExists(r.id)), cred |-> r.cred,
                         role |-> r.crole, uid |-> r.uid, revoked |-> r.revoked,
                         changed |-> StoreChanged,
                         invalid |-> r.priority \notin (Priorities \cup {Absent}),
                         applied |-> UpdateApplied(tasks, tasks', r.id, ReqBody(r))])

JwtDeleteTask(tok, id) ==
    /\ variant = "token" /\ Arrive
    /\ UNCHANGED <<variant, budget, users, projects, nextProjectId, nextTaskId, sessions,
                   nextSid, nextUserId, issued, now, inflight, loggedOut, failSeen,
                   creatorRole>>
    /\ IF JwtChain(tok, JwtNeed("deleteTask")) # 0
       THEN /\ UNCHANGED tasks
            /\ resp' = JwtReject("deleteTask", tok, JwtNeed("deleteTask"))
       ELSE /\ tasks' = Destroy(tasks, id)
            /\ resp' = Response(
                 [op |-> "deleteTask",
                  status |-> IF TaskExists(id) THEN 200 ELSE 404,
                  body |-> IF TaskExists(id) THEN "Task deleted" ELSE "Task not found",
                  found |-> YesNo(TaskExists(id)), changed |-> StoreChanged]
                 @@ JwtSeen(tok))

----------------------------------------------------------------------------
\* Session variant: middleware (src/unnamed/part_000)

\* MemoryStore.get: the session of a cookie, if stored and not expired
SessionLive(sid) == sid \in DOMAIN sessions /\ now < sessions[sid].expires

\* The session middleware: the sid req.session is bound to, 0 for a fresh
\* session that is not in the store (saveUninitialized: false)
LoadSession(cookie) == IF SessionLive(cookie) THEN cookie ELSE 0

\* req.session.userId of the bound session
SessionUserId(sid) == IF sid = 0 THEN Null ELSE sessions[sid].userId

\* End of a response whose handler left req.session as loaded: the store's
\* touch() renews the expiry of a session that is still stored; one that has
\* expired since it was loaded is removed instead
Touch(table, sid) ==
    IF sid \notin DOMAIN table THEN table
    ELSE IF now < table[sid].expires
    THEN [table EXCEPT ![sid].expires = now + SessionTTL]
    ELSE [s \in DOMAIN table \ {sid} |-> table[s]]

\* requireAuth: 0 stands for next(), otherwise the status sent; every route
\* of the session variant is mounted with it alone
SessChain(userId) == IF userId # Null THEN 0 ELSE 401
requireAuth(sid) == IF sid # 0 THEN SessChain(SessionUserId(sid)) ELSE 401

\* History: how the presented cookie stands when the request arrives
SessCred(cookie) ==
    IF cookie = NoCookie THEN "none"
    ELSE IF cookie = BadCookie THEN "bad"
    ELSE IF cookie \notin DOMAIN sessions THEN "gone"
    ELSE IF now >= sessions[cookie].expires THEN "expired"
    ELSE "ok"

SessSeen(cookie) ==
    [cred |-> SessCred(cookie),
     role |-> IF SessCred(cookie) = "ok"
              THEN UserFindByPk(sessions[cookie].userId).role ELSE "-",
     uid |-> IF SessCred(cookie) = "ok" THEN sessions[cookie].userId ELSE Null,
     revoked |-> cookie \in loggedOut]

SessReject(op, cookie) ==
    Response([op |-> op, status |-> 401, body |-> "Authentication required",
              changed |-> StoreChanged, schanged |-> SessionsChanged]
             @@ SessSeen(cookie))

SessUserSummary == {"id", "name", "email"}
SessUserAttributes == {"id", "name", "email"}
SessIncludeAttributes == {"id", "name", "email"}

SessUserFields(op) ==
    CASE op \in {"profile", "listUsers"} -> SessUserAttributes
      [] op \in {"listProjects", "getProject", "listTasks"} -> SessIncludeAttributes
      [] OTHER -> {}

----------------------------------------------------------------------------
\* Session variant: auth routes

SessRegisterFind(cookie, name, email, password) ==
    /\ variant = "session"
    /\ UNCHANGED <<variant, budget, users, projects, tasks, nextProjectId, nextTaskId,
                   nextSid, nextUserId, issued, now, loggedOut, failSeen, creatorRole>>
    /\ LET sid == LoadSession(cookie)
           existingUser == UserFindOne(email)
       IN IF existingUser # NoUser
          THEN /\ Arrive
               /\ UNCHANGED inflight
               /\ sessions' = Touch(sessions, sid)
               /\ resp' = Response([op |-> "register", status |-> 400,
                                    body |-> "User with this email already exists",
                                    dup |-> YesNo(EmailStored(email)),
                                    schanged |-> SessionsChanged])
          ELSE /\ Suspend
               /\ inflight' = inflight \cup
                    {Request([op |-> "register", pc |-> "create", name |-> name,
                              email |-> email, password |-> password, sid |-> sid,
                              stored |-> YesNo(EmailStored(email))])}
               /\ UNCHANGED <<resp, sessions>>

SessRegisterCreate(r) ==
    /\ variant = "session" /\ r.op = "register" /\ r.pc = "create"
    /\ inflight' = inflight \ {r}
    /\ sessions' = Touch(sessions, r.sid)
    /\ UNCHANGED <<variant, budget, projects, tasks, nextProjectId, nextTaskId, nextSid,
                   issued, now, nreq, loggedOut, failSeen, creatorRole>>
    /\ IF UserInsertAllowed(r.email)
       THEN LET newUser == [id |-> UserNewId, name |-> r.name, email |-> r.email,
                            password |-> Hash(r.password), role |-> UserDefaultRole]
            IN /\ users' = users \cup {newUser}
               /\ nextUserId' = nextUserId + 1
               /\ resp' = Response([op |-> "register", status |-> 201,
                                    body |-> "User registered", dup |-> Dup(r),
                                    fields |-> SessUserSummary,
                                    id |-> newUser.id, changed |-> StoreChanged,
                                    schanged |-> SessionsChanged])
       ELSE /\ UNCHANGED <<users, nextUserId>>
            /\ resp' = Response([op |-> "register", status |-> 500,
                                 body |-> "Failed to register user", dup |-> Dup(r),
                                 schanged |-> SessionsChanged])

\* The two failures of login
SessLoginNoUser == [status |-> 401, body |-> "Invalid email or password"]
SessLoginBadPassword == [status |-> 401, body |-> "Invalid email or password"]

SessLoginFind(cookie, email, password) ==
    /\ variant = "session"
    /\ UNCHANGED <<variant, budget, users, projects, tasks, nextProjectId, nextTaskId,
                   nextSid, nextUserId, issued, now, loggedOut, creatorRole>>
    /\ LET sid == LoadSession(cookie)
           user == UserFindOne(email)
       IN IF user = NoUser
          THEN /\ Arrive
               /\ UNCHANGED inflight
               /\ sessions' = Touch(sessions, sid)
               /\ resp' = Response([op |-> "login", cause |-> "noUser",
                                    changed |-> StoreChanged,
                                    schanged |-> SessionsChanged] @@ SessLoginNoUser)
               /\ failSeen' = failSeen \cup
                    {[cause |-> "noUser", status |-> resp'.status, body |-> resp'.body]}
          ELSE /\ Suspend
               /\ inflight' = inflight \cup
                    {Request([op |-> "login", pc |-> "compare", uid |-> user.id,
                              password |-> password, sid |-> sid,
                              loaded |-> SessionUserId(sid)])}
               /\ UNCHANGED <<resp, failSeen, sessions>>

\* The session data login writes, as saved at the end of the response
SessionData(user) ==
    [userId |-> user.id, userName |-> user.name, userEmail |-> user.email,
     expires |-> now + SessionTTL]

\* End of the login response: a fresh session is stored under a new id; a
\* loaded one is saved under its id if login changed it, touched otherwise
SaveSession(r, user) ==
    IF r.sid = 0 THEN (nextSid :> SessionData(user)) @@ sessions
    ELSE IF r.loaded # user.id THEN (r.sid :> SessionData(user)) @@ sessions
    ELSE Touch(sessions, r.sid)

SessLoginCompare(r) ==
    /\ variant = "session" /\ r.op = "login" /\ r.pc = "compare"
    /\ inflight' = inflight \ {r}
    /\ UNCHANGED <<variant, budget, users, projects, tasks, nextProjectId, nextTaskId,
                   nextUserId, issued, now, nreq, loggedOut, creatorRole>>
    /\ LET user == UserFindByPk(r.uid)
       IN IF ~Compare(r.password, user.password)
          THEN /\ sessions' = Touch(sessions, r.sid)
               /\ UNCHANGED nextSid
               /\ resp' = Response([op |-> "login", cause |-> "badPassword",
                                    changed |-> StoreChanged,
                                    schanged |-> SessionsChanged] @@ SessLoginBadPassword)
               /\ failSeen' = failSeen \cup
                    {[cause |-> "badPassword", status |-> resp'.status, body |-> resp'.body]}
          ELSE /\ sessions' = SaveSession(r, user)
               /\ nextSid' = IF r.sid = 0 THEN nextSid + 1 ELSE nextSid
               /\ UNCHANGED failSeen
               /\ resp' = Response([op |-> "login", status |-> 200,
                                    body |-> "Login successful", id |-> user.id,
                                    fields |-> SessUserSummary,
                                    schanged |-> SessionsChanged])

\* POST /api/logout has no requireAuth: req.session.destroy() removes the
\* bound session from the store
SessLogout(cookie) ==
    /\ variant = "session" /\ Arrive
    /\ sessions' = [s \in DOMAIN sessions \ {LoadSession(cookie)} |-> sessions[s]]
    /\ loggedOut' = IF cookie >= 1 THEN loggedOut \cup {cookie} ELSE loggedOut
    /\ UNCHANGED <<variant, budget, users, projects, tasks, nextProjectId, nextTaskId,
                   nextSid, nextUserId, issued, now, inflight, failSeen, creatorRole>>
    /\ resp' = Response([op |-> "logout", status |-> 200, body |-> "Logout successful",
                         schanged |-> SessionsChanged] @@ SessSeen(cookie))

----------------------------------------------------------------------------
\* Session variant: user, project and task routes (requireAuth only)

SessRead(op, cookie, found) ==
    /\ variant = "session" /\ Arrive
    /\ sessions' = Touch(sessions, LoadSession(cookie))
    /\ UNCHANGED <<variant, budget, users, projects, tasks, nextProjectId, nextTaskId,
                   nextSid, nextUserId, issued, now, inflight, loggedOut, failSeen,
                   creatorRole>>
    /\ resp' = IF requireAuth(LoadSession(cookie)) # 0 THEN SessReject(op, cookie)
               ELSE IF ~found
               THEN Response([op |-> op, status |-> 404, body |-> NotFoundBody(op),
                              schanged |-> SessionsChanged] @@ SessSeen(cookie))
               ELSE Response([op |-> op, status |-> 200, body |-> "ok",
                              fields |-> SessUserFields(op),
                              schanged |-> SessionsChanged] @@ SessSeen(cookie))

SessProfile(cookie) ==
    SessRead("profile", cookie, UserFindByPk(SessionUserId(LoadSession(cookie))) # NoUser)
SessListUsers(cookie) == SessRead("listUsers", cookie, TRUE)
SessListProjects(cookie) == SessRead("listProjects", cookie, TRUE)
SessGetProject(cookie, id) == SessRead("getProject", cookie, ProjectExists(id))
SessListTasks(cookie, id) == SessRead("listTasks", cookie, TRUE)

SessCreateProject(cookie, statusIn) ==
    /\ variant = "session" /\ Arrive
    /\ sessions' = Touch(sessions, LoadSession(cookie))
    /\ UNCHANGED <<variant, budget, users, tasks, nextTaskId, nextSid, nextUserId, issued,
                   now, inflight, loggedOut, failSeen>>
    /\ IF requireAuth(LoadSession(cookie)) # 0
       THEN /\ UNCHANGED <<projects, nextProjectId, creatorRole>>
            /\ resp' = SessReject("createProject", cookie)
       ELSE /\ LET user == SessionUserId(LoadSession(cookie))
                    newProject == NewProject(nextProjectId, statusIn, user)
               IN /\ projects' = projects \cup {newProject}
                  /\ nextProjectId' = nextProjectId + 1
                  /\ creatorRole' = (nextProjectId :> SessSeen(cookie).role) @@ creatorRole
                  /\ resp' = Response([op |-> "createProject", status |-> 201,
                                       body |-> "ok", id |-> nextProjectId,
                                       changed |-> StoreChanged, uid |-> user,
                                       statusIn |-> statusIn,
                                       managerId |-> newProject.managerId,
                                       pstatus |-> newProject.status,
                                       schanged |-> SessionsChanged] @@ SessSeen(cookie))

\* PUT: Model.update({...}, { where: { id } }), then findByPk for the response
SessUpdateProject(cookie, id, statusIn) ==
    /\ variant = "session"
    /\ UNCHANGED <<variant, budget, users, tasks, nextProjectId, nextTaskId, nextSid,
                   nextUserId, issued, now, loggedOut, failSeen, creatorRole>>
    /\ IF requireAuth(LoadSession(cookie)) # 0
       THEN /\ Arrive /\ UNCHANGED <<inflight, projects, sessions>>
            /\ resp' = SessReject("updateProject", cookie)
       ELSE IF UpdateCount(projects, id, [status |-> statusIn]) = 0
       THEN /\ Arrive /\ UNCHANGED <<inflight, projects>>
            /\ sessions' = Touch(sessions, LoadSession(cookie))
            /\ resp' = Response([op |-> "updateProject", status |-> 404,
                                 body |-> "Project not found",
                                 found |-> YesNo(ProjectExists(id)),
                                 schanged |-> SessionsChanged] @@ SessSeen(cookie))
       ELSE /\ Suspend
            /\ projects' = UpdateWhere(projects, id, [status |-> statusIn])
            /\ inflight' = inflight \cup
                 {Request([op |-> "updateProject", pc |-> "reload", id |-> id,
                           sid |-> LoadSession(cookie), cred |-> SessSeen(cookie).cred,
                           crole |-> SessSeen(cookie).role,
                           uid |-> SessSeen(cookie).uid,
                           revoked |-> SessSeen(cookie).revoked,
                           changed |-> StoreChanged])}
            /\ UNCHANGED <<resp, sessions>>

SessUpdateProjectReload(r) ==
    /\ variant = "session" /\ r.op = "updateProject" /\ r.pc = "reload"
    /\ inflight' = inflight \ {r}
    /\ sessions' = Touch(sessions, r.sid)
    /\ UNCHANGED <<variant, budget, users, projects, tasks, nextProjectId, nextTaskId,
                   nextSid, nextUserId, issued, now, nreq, loggedOut, failSeen,
                   creatorRole>>
    /\ resp' = Response([op |-> "updateProject", status |-> 200,
                         body |-> IF ProjectExists(r.id) THEN "ok" ELSE "null",
                         found |-> "yes", cred |-> r.cred, role |-> r.crole, uid |-> r.uid,
                         revoked |-> r.revoked, changed |-> r.changed,
                         schanged |-> SessionsChanged])

SessDeleteProject(cookie, id) ==
    /\ variant = "session" /\ Arrive
    /\ sessions' = Touch(sessions, LoadSession(cookie))
    /\ UNCHANGED <<variant, budget, users, nextProjectId, nextTaskId, nextSid,
                   nextUserId, issued, now, inflight, loggedOut, failSeen, creatorRole>>
    /\ IF requireAuth(LoadSession(cookie)) # 0
       THEN /\ UNCHANGED <<projects, tasks>>
            /\ resp' = SessReject("deleteProject", cookie)
       ELSE /\ projects' = Destroy(projects, id)
            /\ tasks' = TasksAfterProjectDelete(tasks, id)
            /\ resp' = Response(
                 [op |-> "deleteProject", id |-> id,
                  status |-> IF ProjectExists(id) THEN 200 ELSE 404,
                  body |-> IF ProjectExists(id) THEN "Project deleted successfully"
                           ELSE "Project not found",
                  found |-> YesNo(ProjectExists(id)), changed |-> StoreChanged,
                  schanged |-> SessionsChanged] @@ SessSeen(cookie))

SessCreateTask(cookie, projectId, priorityIn) ==
    /\ variant = "session" /\ Arrive
    /\ sessions' = Touch(sessions, LoadSession(cookie))
    /\ UNCHANGED <<variant, budget, users, projects, nextProjectId, nextSid, nextUserId,
                   issued, now, inflight, loggedOut, failSeen, creatorRole>>
    /\ IF requireAuth(LoadSession(cookie)) # 0
       THEN /\ UNCHANGED <<tasks, nextTaskId>>
            /\ resp' = SessReject("createTask", cookie)
       ELSE /\ TaskInsertAllowed(projectId)
            /\ PriorityAccepted(OrDefault(priorityIn, "medium"))
            /\ tasks' = tasks \cup
                 {[id |-> nextTaskId, title |-> "t1", description |-> "d1",
                   projectId |-> projectId, assignedUserId |-> Null,
                   priority |-> OrDefault(priorityIn, "medium"), status |-> "pending"]}
            /\ nextTaskId' = nextTaskId + 1
            /\ resp' = Response([op |-> "createTask", status |-> 201, body |-> "ok",
                                 id |-> nextTaskId, changed |-> StoreChanged,
                                 found |-> YesNo(ProjectExists(projectId)),
                                 invalid |-> OrDefault(priorityIn, "medium") \notin Priorities,
                                 schanged |-> SessionsChanged] @@ SessSeen(cookie))

\* PUT /api/tasks/:id reads title, description, status and priority of the body
SessTaskValues(body) ==
    [title |-> body.title, description |-> body.description,
     status |-> body.status, priority |-> body.priority]

SessUpdateTask(cookie, id, body) ==
    /\ variant = "session"
    /\ UNCHANGED <<variant, budget, users, projects, nextProjectId, nextTaskId, nextSid,
                   nextUserId, issued, now, loggedOut, failSeen, creatorRole>>
    /\ IF requireAuth(LoadSession(cookie)) # 0
       THEN /\ Arrive /\ UNCHANGED <<inflight, tasks, sessions>>
            /\ resp' = SessReject("updateTask", cookie)
       ELSE IF UpdateCount(tasks, id, SessTaskValues(body)) = 0
       THEN /\ Arrive /\ UNCHANGED <<inflight, tasks>>
            /\ sessions' = Touch(sessions, LoadSession(cookie))
            /\ resp' = Response([op |-> "updateTask", status |-> 404,
                                 body |-> "Task not found",
                                 found |-> YesNo(TaskExists(id)),
                                 applied |-> UpdateApplied(tasks, tasks, id, body),
                                 schanged |-> SessionsChanged] @@ SessSeen(cookie))
       ELSE /\ Suspend
            /\ PriorityAccepted(body.priority)
            /\ tasks' = UpdateWhere(tasks, id, SessTaskValues(body))
            /\ inflight' = inflight \cup
                 {Request([op |-> "updateTask", pc |-> "reload", id |-> id,
                           priority |-> body.priority,
                           sid |-> LoadSession(cookie), cred |-> SessSeen(cookie).cred,
                           crole |-> SessSeen(cookie).role,
                           uid |-> SessSeen(cookie).uid,
                           revoked |-> SessSeen(cookie).revoked,
                           changed |-> StoreChanged,
                           applied |-> UpdateApplied(tasks, tasks', id, body)])}
            /\ UNCHANGED <<resp, sessions>>

SessUpdateTaskReload(r) ==
    /\ variant = "session" /\ r.op = "updateTask" /\ r.pc = "reload"
    /\ inflight' = inflight \ {r}
    /\ sessions' = Touch(sessions, r.sid)
    /\ UNCHANGED <<variant, budget, users, projects, tasks, nextProjectId, nextTaskId,
                   nextSid, nextUserId, issued, now, nreq, loggedOut, failSeen,
                   creatorRole>>
    /\ resp' = Response([op |-> "updateTask", status |-> 200,
                         body |-> IF TaskExists(r.id) THEN "ok" ELSE "null",
                         found |-> "yes", cred |-> r.cred, role |-> r.crole, uid |-> r.uid,
                         revoked |-> r.revoked, changed |-> r.changed,
                         applied |-> r.applied,
                         invalid |-> r.priority \notin (Priorities \cup {Absent}),
                         schanged |-> SessionsChanged])

SessDeleteTask(cookie, id) ==
    /\ variant = "session" /\ Arrive
    /\ sessions' = Touch(sessions, LoadSession(cookie))
    /\ UNCHANGED <<variant, budget, users, projects, nextProjectId, nextTaskId, nextSid,
                   nextUserId, issued, now, inflight, loggedOut, failSeen, creatorRole>>
    /\ IF requireAuth(LoadSession(cookie)) # 0
       THEN /\ UNCHANGED tasks
            /\ resp' = SessReject("deleteTask", cookie)
       ELSE /\ tasks' = Destroy(tasks, id)
            /\ resp' = Response(
                 [op |-> "deleteTask",
                  status |-> IF TaskExists(id) THEN 200 ELSE 404,
                  body |-> IF TaskExists(id) THEN "Task deleted successfully"
                           ELSE "Task not found",
                  found |-> YesNo(TaskExists(id)), changed |-> StoreChanged,
                  schanged |-> SessionsChanged] @@ SessSeen(cookie))

----------------------------------------------------------------------------
\* Store faults: a call to the store rejects (e.g. the storage is unavailable)

\* The routes whose handlers await the store outside any try/catch
UnguardedOps ==
    {"profile", "listUsers", "listProjects", "getProject", "createProject",
     "updateProject", "deleteProject", "listTasks", "createTask", "updateTask",
     "deleteTask"}

\* An async handler whose awaited call rejects outside a try/catch: either the
\* router never learns of the rejection and nothing is sent, or it hands the
\* rejection to its default error handler, which answers 500; which of the
\* two depends on the version of the router the server is installed with
UncaughtRejection == {"pending", "500"}

\* register and login catch the rejection and answer 500
JwtRegisterFault ==
    /\ variant = "token" /\ Arrive
    /\ UNCHANGED <<variant, budget, users, projects, tasks, nextProjectId, nextTaskId,
                   sessions, nextSid, nextUserId, issued, now, inflight, loggedOut,
                   failSeen, creatorRole>>
    /\ resp' = Response([op |-> "register", status |-> 500,
                         body |-> "Registration failed", cause |-> "fault"])

JwtLoginFault ==
    /\ variant = "token" /\ Arrive
    /\ UNCHANGED <<variant, budget, users, projects, tasks, nextProjectId, nextTaskId,
                   sessions, nextSid, nextUserId, issued, now, inflight, loggedOut,
                   failSeen, creatorRole>>
    /\ resp' = Response([op |-> "login", status |-> 500, body |-> "Login failed",
                         cause |-> "fault"])

\* The end of a handler that rejected uncaught
Uncaught(op, outcome, seen) ==
    IF outcome = "pending"
    THEN /\ Cardinality(inflight) < MaxInFlight
         /\ inflight' = inflight \cup {Request([op |-> op, pc |-> "abandoned"])}
         /\ UNCHANGED resp
    ELSE /\ UNCHANGED inflight
         /\ resp' = Response([op |-> op, status |-> 500,
                              body |-> "Internal Server Error", cause |-> "fault"]
                             @@ seen)

JwtRouteFault(op, tok, outcome) ==
    /\ variant = "token" /\ Arrive
    /\ JwtChain(tok, JwtNeed(op)) = 0
    /\ UNCHANGED <<variant, budget, users, projects, tasks, nextProjectId, nextTaskId,
                   sessions, nextSid, nextUserId, issued, now, loggedOut, failSeen,
                   creatorRole>>
    /\ Uncaught(op, outcome, JwtSeen(tok))

SessRegisterFault(cookie) ==
    /\ variant = "session" /\ Arrive
    /\ sessions' = Touch(sessions, LoadSession(cookie))
    /\ UNCHANGED <<variant, budget, users, projects, tasks, nextProjectId, nextTaskId,
                   nextSid, nextUserId, issued, now, inflight, loggedOut, failSeen,
                   creatorRole>>
    /\ resp' = Response([op |-> "register", status |-> 500,
                         body |-> "Failed to register user", cause |-> "fault"])

SessLoginFault(cookie) ==
    /\ variant = "session" /\ Arrive
    /\ sessions' = Touch(sessions, LoadSession(cookie))
    /\ UNCHANGED <<variant, budget, users, projects, tasks, nextProjectId, nextTaskId,
                   nextSid, nextUserId, issued, now, inflight, loggedOut, failSeen,
                   creatorRole>>
    /\ resp' = Response([op |-> "login", status |-> 500, body |-> "Failed to login",
                         cause |-> "fault"])

\* Nothing is sent for a handler left pending, so its session is not touched
SessRouteFault(op, cookie, outcome) ==
    /\ variant = "session" /\ Arrive
    /\ requireAuth(LoadSession(cookie)) = 0
    /\ sessions' = IF outcome = "pending" THEN sessions
                   ELSE Touch(sessions, LoadSession(cookie))
    /\ UNCHANGED <<variant, budget, users, projects, tasks, nextProjectId, nextTaskId,
                   nextSid, nextUserId, issued, now, loggedOut, failSeen, creatorRole>>
    /\ Uncaught(op, outcome, SessSeen(cookie))

\* The end of a suspended handler whose next call to the store rejects
\* uncaught: what the handler wrote before its await stays written
UncaughtLater(r, outcome) ==
    IF outcome = "pending"
    THEN /\ inflight' = (inflight \ {r}) \cup {[r EXCEPT !.pc = "abandoned"]}
         /\ UNCHANGED resp
    ELSE /\ inflight' = inflight \ {r}
         /\ resp' = Response([op |-> r.op, status |-> 500,
                              body |-> "Internal Server Error", cause |-> "fault",
                              cred |-> r.cred, role |-> r.crole, uid |-> r.uid,
                              revoked |-> r.revoked, changed |-> r.changed])

\* PUT of the token variant: findByPk found the row, the instance's update
\* rejects and nothing is written
JwtSaveFault(r, outcome) ==
    /\ variant = "token" /\ r.op \in {"updateProject", "updateTask"} /\ r.pc = "save"
    /\ UNCHANGED <<variant, budget, users, projects, tasks, nextProjectId, nextTaskId,
                   sessions, nextSid, nextUserId, issued, now, nreq, loggedOut,
                   failSeen, creatorRole>>
    /\ UncaughtLater(r, outcome)

\* PUT of the session variant: Model.update has written the row, the
\* findByPk for the response rejects
SessReloadFault(r, outcome) ==
    /\ variant = "session" /\ r.op \in {"updateProject", "updateTask"}
    /\ r.pc = "reload"
    /\ sessions' = IF outcome = "pending" THEN sessions ELSE Touch(sessions, r.sid)
    /\ UNCHANGED <<variant, budget, users, projects, tasks, nextProjectId, nextTaskId,
                   nextSid, nextUserId, issued, now, nreq, loggedOut, failSeen,
                   creatorRole>>
    /\ UncaughtLater(r, outcome)

----------------------------------------------------------------------------
\* Time passes
Tick ==
    /\ now < MaxTime
    /\ now' = now + 1
    /\ UNCHANGED <<variant, budget, users, projects, tasks, nextProjectId, nextTaskId,
                   sessions, nextSid, nextUserId, issued, inflight, nreq, resp,
                   loggedOut, failSeen, creatorRole>>

Next ==
    \/ \E n \in Names, e \in Emails, p \in Passwords, r \in RoleInputs :
          JwtRegisterFind(n, e, p, r)
    \/ \E r \in inflight : JwtRegisterCreate(r)
    \/ \E e \in LoginEmails, p \in Passwords : JwtLoginFind(e, p)
    \/ \E r \in inflight : JwtLoginCompare(r)
    \/ \E t \in Headers : JwtLogout(t)
    \/ \E t \in Headers : JwtProfile(t)
    \/ \E t \in Headers : JwtListUsers(t)
    \/ \E t \in Headers : JwtListProjects(t)
    \/ \E t \in Headers, id \in PathIds : JwtGetProject(t, id)
    \/ \E t \in Headers, s \in StatusInputs : JwtCreateProject(t, s)
    \/ \E t \in Headers, id \in PathIds, s \in StatusInputs : JwtUpdateProjectFind(t, id, s)
    \/ \E r \in inflight : JwtUpdateProjectSave(r)
    \/ \E t \in Headers, id \in PathIds : JwtDeleteProject(t, id)
    \/ \E t \in Headers, id \in PathIds : JwtListTasks(t, id)
    \/ \E t \in Headers, id \in PathIds, p \in PriorityInputs : JwtCreateTask(t, id, p)
    \/ \E t \in Headers, id \in PathIds, b \in TaskBodies : JwtUpdateTaskFind(t, id, b)
    \/ \E r \in inflight : JwtUpdateTaskSave(r)
    \/ \E t \in Headers, id \in PathIds : JwtDeleteTask(t, id)
    \/ \E c \in Cookies, n \in Names, e \in Emails, p \in Passwords :
          SessRegisterFind(c, n, e, p)
    \/ \E r \in inflight : SessRegisterCreate(r)
    \/ \E c \in Cookies, e \in LoginEmails, p \in Passwords : SessLoginFind(c, e, p)
    \/ \E r \in inflight : SessLoginCompare(r)
    \/ \E c \in Cookies : SessLogout(c)
    \/ \E c \in Cookies : SessProfile(c)
    \/ \E c \in Cookies : SessListUsers(c)
    \/ \E c \in Cookies : SessListProjects(c)
    \/ \E c \in Cookies, id \in PathIds : SessGetProject(c, id)
    \/ \E c \in Cookies, s \in StatusInputs : SessCreateProject(c, s)
    \/ \E c \in Cookies, id \in PathIds, s \in StatusInputs : SessUpdateProject(c, id, s)
    \/ \E r \in inflight : SessUpdateProjectReload(r)
    \/ \E c \in Cookies, id \in PathIds : SessDeleteProject(c, id)
    \/ \E c \in Cookies, id \in PathIds : SessListTasks(c, id)
    \/ \E c \in Cookies, id \in PathIds, p \in PriorityInputs : SessCreateTask(c, id, p)
    \/ \E c \in Cookies, id \in PathIds, b \in TaskBodies : SessUpdateTask(c, id, b)
    \/ \E r \in inflight : SessUpdateTaskReload(r)
    \/ \E c \in Cookies, id \in PathIds : SessDeleteTask(c, id)
    \/ Tick

Spec == Init /\ [][Next]_vars

\* Login, logout and an authenticated route, from a store with users
NextAuth ==
    \/ \E e \in LoginEmails, p \in Passwords : JwtLoginFind(e, p)
    \/ \E r \in inflight : JwtLoginCompare(r)
    \/ \E t \in Headers : JwtLogout(t)
    \/ \E t \in Headers : JwtProfile(t)
    \/ \E c \in Cookies, e \in LoginEmails, p \in Passwords : SessLoginFind(c, e, p)
    \/ \E r \in inflight : SessLoginCompare(r)
    \/ \E c \in Cookies : SessLogout(c)
    \/ \E c \in Cookies : SessProfile(c)
    \/ Tick

SpecAuth == InitAuth /\ [][NextAuth]_vars

\* The project and task routes, from a store with users
NextCrud ==
    \/ \E t \in Headers, s \in StatusInputs : JwtCreateProject(t, s)
    \/ \E t \in Headers, id \in PathIds, s \in StatusInputs : JwtUpdateProjectFind(t, id, s)
    \/ \E r \in inflight : JwtUpdateProjectSave(r)
    \/ \E t \in Headers, id \in PathIds : JwtDeleteProject(t, id)
    \/ \E t \in Headers, id \in PathIds, p \in PriorityInputs : JwtCreateTask(t, id, p)
    \/ \E t \in Headers, id \in PathIds, b \in TaskBodies : JwtUpdateTaskFind(t, id, b)
    \/ \E r \in inflight : JwtUpdateTaskSave(r)
    \/ \E t \in Headers, id \in PathIds : JwtDeleteTask(t, id)
    \/ \E c \in Cookies, s \in StatusInputs : SessCreateProject(c, s)
    \/ \E c \in Cookies, id \in PathIds, s \in StatusInputs : SessUpdateProject(c, id, s)
    \/ \E r \in inflight : SessUpdateProjectReload(r)
    \/ \E c \in Cookies, id \in PathIds : SessDeleteProject(c, id)
    \/ \E c \in Cookies, id \in PathIds, p \in PriorityInputs : SessCreateTask(c, id, p)
    \/ \E c \in Cookies, id \in PathIds, b \in TaskBodies : SessUpdateTask(c, id, b)
    \/ \E r \in inflight : SessUpdateTaskReload(r)
    \/ \E c \in Cookies, id \in PathIds : SessDeleteTask(c, id)

SpecCrud == InitCrud /\ [][NextCrud]_vars

\* Register, log in and create a project, from an empty store; SpecFlow
\* follows one user
FlowEmails == {"a@x.com"}
NextFlow ==
    \/ \E n \in Names, e \in FlowEmails, p \in Passwords, r \in RoleInputs :
          JwtRegisterFind(n, e, p, r)
    \/ \E r \in inflight : JwtRegisterCreate(r)
    \/ \E e \in FlowEmails, p \in Passwords : JwtLoginFind(e, p)
    \/ \E r \in inflight : JwtLoginCompare(r)
    \/ \E t \in Headers, s \in StatusInputs : JwtCreateProject(t, s)
    \/ \E c \in Cookies, n \in Names, e \in FlowEmails, p \in Passwords :
          SessRegisterFind(c, n, e, p)
    \/ \E r \in inflight : SessRegisterCreate(r)
    \/ \E c \in Cookies, e \in FlowEmails, p \in Passwords : SessLoginFind(c, e, p)
    \/ \E r \in inflight : SessLoginCompare(r)
    \/ \E c \in Cookies, s \in StatusInputs : SessCreateProject(c, s)
    \/ Tick

SpecFlow == InitFlow /\ [][NextFlow]_vars

\* The requests that carry a role or a priority, sent also with values
\* outside the enumerations
AnyRoleInputs == RoleInputs \cup {"root"}
AnyPriorityInputs == PriorityInputs \cup {"urgent"}
AnyTaskBodies == TaskBodies \cup {TaskBody([priority |-> "urgent"])}

NextInput ==
    \/ \E n \in Names, e \in Emails \cup {"c@x.com"}, p \in Passwords, r \in AnyRoleInputs :
          JwtRegisterFind(n, e, p, r)
    \/ \E r \in inflight : JwtRegisterCreate(r)
    \/ \E t \in Headers, id \in PathIds, p \in AnyPriorityInputs : JwtCreateTask(t, id, p)
    \/ \E t \in Headers, id \in PathIds, b \in AnyTaskBodies : JwtUpdateTaskFind(t, id, b)
    \/ \E r \in inflight : JwtUpdateTaskSave(r)
    \/ \E c \in Cookies, id \in PathIds, p \in AnyPriorityInputs : SessCreateTask(c, id, p)
    \/ \E c \in Cookies, id \in PathIds, b \in AnyTaskBodies : SessUpdateTask(c, id, b)
    \/ \E r \in inflight : SessUpdateTaskReload(r)

SpecInput == InitInput /\ [][NextInput]_vars

\* Requests during which a call to the store rejects, next to logins,
\* profile reads and project writes that go well
NextFault ==
    \/ JwtRegisterFault
    \/ JwtLoginFault
    \/ \E op \in UnguardedOps, t \in Headers, o \in UncaughtRejection :
          JwtRouteFault(op, t, o)
    \/ \E e \in LoginEmails, p \in Passwords : JwtLoginFind(e, p)
    \/ \E r \in inflight : JwtLoginCompare(r)
    \/ \E t \in Headers : JwtProfile(t)
    \/ \E t \in Headers, s \in StatusInputs : JwtCreateProject(t, s)
    \/ \E t \in Headers, id \in PathIds, s \in StatusInputs : JwtUpdateProjectFind(t, id, s)
    \/ \E r \in inflight : JwtUpdateProjectSave(r)
    \/ \E r \in inflight, o \in UncaughtRejection : JwtSaveFault(r, o)
    \/ \E c \in Cookies : SessRegisterFault(c)
    \/ \E c \in Cookies : SessLoginFault(c)
    \/ \E op \in UnguardedOps, c \in Cookies, o \in UncaughtRejection :
          SessRouteFault(op, c, o)
    \/ \E c \in Cookies, e \in LoginEmails, p \in Passwords : SessLoginFind(c, e, p)
    \/ \E r \in inflight : SessLoginCompare(r)
    \/ \E c \in Cookies : SessProfile(c)
    \/ \E c \in Cookies, s \in StatusInputs : SessCreateProject(c, s)
    \/ \E c \in Cookies, id \in PathIds, s \in StatusInputs : SessUpdateProject(c, id, s)
    \/ \E r \in inflight : SessUpdateProjectReload(r)
    \/ \E r \in inflight, o \in UncaughtRejection : SessReloadFault(r, o)

SpecFault == InitFault /\ [][NextFault]_vars

----------------------------------------------------------------------------
\* Properties

\* The role hierarchy employee < manager < admin and the policy table
RoleRank(r) ==
    CASE r = "employee" -> 1 [] r = "manager" -> 2 [] r = "admin" -> 3 [] OTHER -> 0

EmployeeOps == {"profile", "listProjects", "getProject", "listTasks", "updateTask"}
ManagerOps == {"createProject", "updateProject", "createTask", "deleteTask"}
AdminOps == {"deleteProject", "listUsers"}
PolicyOps == EmployeeOps \cup ManagerOps \cup AdminOps
AuthRequiredOps == PolicyOps \cup {"logout"}

MinRole(op) == IF op \in AdminOps THEN 3 ELSE IF op \in ManagerOps THEN 2 ELSE 1

\* The latest response answers a request that carried a credential the
\* authenticator resolved to an identity
Authenticated == resp.cred = "ok"

\* C1: a request of an authenticated identity with one of the three roles is
\* answered 403 exactly when the operation's minimum role is above its role.
C1_GuardFollowsPolicyTable ==
    (resp.op \in PolicyOps /\ Authenticated /\ resp.role \in Roles)
        => ((resp.status = 403) <=> (MinRole(resp.op) > RoleRank(resp.role)))

\* C2: an employee's POST /api/projects is answered 403 and changes no row,
\* and every Project row was created by a manager or an admin.
C2_EmployeeCannotCreateProject ==
    /\ (resp.op = "createProject" /\ Authenticated /\ resp.role = "employee")
          => (resp.status = 403 /\ ~resp.changed)
    /\ \A p \in projects : creatorRole[p.id] \in {"manager", "admin"}

\* C3: a request to an auth-required endpoint (logout included) that carries
\* no credential or a malformed one is answered 401 and changes nothing.
C3_NoCredentialIs401 ==
    (resp.op \in AuthRequiredOps /\ resp.cred \in {"none", "bad"})
        => (resp.status = 401 /\ ~resp.changed /\ ~resp.schanged)

\* C4: a registration whose email is not stored (neither when the request
\* arrives nor at its insert, as in every sequential history) succeeds with
\* 201 and a new row under an id no other row has; a registration whose email
\* is stored fails with 400 and the duplicate-email error and adds no row.
DuplicateEmailBody ==
    IF variant = "token" THEN "Email already exists"
    ELSE "User with this email already exists"

C4_RegisterByEmail ==
    /\ (resp.op = "register" /\ resp.dup = "no")
          => /\ resp.status = 201 /\ resp.changed
             /\ Cardinality({u \in users : u.id = resp.id}) = 1
    /\ (resp.op = "register" /\ resp.dup = "yes")
          => (resp.status = 400 /\ resp.body = DuplicateEmailBody /\ ~resp.changed)
    /\ Cardinality({u.id : u \in users}) = Cardinality(users)

C4_Witness ==
    /\ resp.op = "register" /\ resp.dup = "yes" /\ resp.status = 400
    /\ Cardinality(users) = 1 /\ nreq = 2

\* C5: no two User rows hold the same email, and of two concurrent register
\* requests with the same email the one that inserts second does not succeed.
C5_EmailUnique ==
    /\ \A e \in Emails : Cardinality({u \in users : u.email = e}) <= 1
    /\ (resp.op = "register" /\ resp.dup = "raced")
          => (resp.status # 201 /\ ~resp.changed)

C5_Witness == resp.op = "register" /\ resp.dup = "raced"

\* C6: every failed login, for an unknown email or for a wrong password, is
\* answered with the same status and body and changes nothing.
C6_LoginFailuresAlike ==
    /\ \A a, b \in failSeen : a.status = b.status /\ a.body = b.body
    /\ (resp.op = "login" /\ resp.cause \in {"noUser", "badPassword"})
          => (~resp.changed /\ ~resp.schanged)

C6_Witness ==
    /\ resp.op = "login"
    /\ {f.cause : f \in failSeen} = {"noUser", "badPassword"}

\* C7: session variant: a request to an auth-required endpoint that presents
\* a reference a logout was performed with is answered 401.
C7_LoggedOutReferenceIs401 ==
    (variant = "session" /\ resp.op \in PolicyOps /\ resp.revoked)
        => resp.status = 401

\* C8: token variant: logout changes no server state, and a token a logout
\* was performed with is still accepted while it has not expired.
C8_TokenSurvivesLogout ==
    variant = "token" =>
        /\ resp.op = "logout" => (~resp.changed /\ ~resp.schanged)
        /\ (resp.op \in PolicyOps /\ resp.revoked /\ resp.cred = "ok")
              => resp.status # 401

C8_Witness ==
    /\ variant = "token" /\ resp.op \in PolicyOps /\ resp.revoked
    /\ resp.cred = "ok" /\ resp.status = 200

\* C9: token variant: the role a token resolves to is never above the role
\* stored for its user when the token was issued.
C9_TokenRoleNotAboveIssued ==
    \A i \in issued :
        authenticateJWT(i.tok) = 0 => RoleRank(i.tok.role) <= RoleRank(i.roleAtIssue)

C9_Witness ==
    /\ variant = "token" /\ nreq > 0 /\ Authenticated /\ resp.role = "manager"
    /\ \E i \in issued : i.roleAtIssue = "manager" /\ authenticateJWT(i.tok) = 0

\* C10: an authorized update or delete of a Project or Task whose row is not
\* in the store when the handler writes is answered 404.
C10_MissingRowIs404 ==
    (resp.op \in {"updateProject", "deleteProject", "updateTask", "deleteTask"}
     /\ resp.found = "no")
        => resp.status = 404

\* C11: an update of a Task that is answered 200, or whose row is stored,
\* leaves the row with exactly the fields the request supplied changed to the
\* supplied values (assignedUserId included) and every other field, and
\* every other row, as it was.
C11_UpdateIsPartial ==
    (resp.op = "updateTask" /\ (resp.status = 200 \/ resp.found = "yes"))
        => resp.applied

\* C12: an authorized request to create a Task under a projectId that no
\* Project row has is answered with a failure and adds no Task row.
C12_TaskNeedsProject ==
    (resp.op = "createTask" /\ resp.found = "no")
        => (resp.status >= 400 /\ ~resp.changed)

\* C13: a registered user who is a manager (an admin likewise; in the
\* session variant, where register reads no role, any registered user) and
\* has logged in gets 201 for POST /api/projects; every created Project is
\* returned with managerId equal to the id of the identity resolved for the
\* request and with status "active" when the request supplies no status.
C13_CreatorOwnsProject ==
    /\ (resp.op = "createProject" /\ Authenticated
          /\ (variant = "session" \/ resp.role \in {"manager", "admin"}))
          => resp.status = 201
    /\ (resp.op = "createProject" /\ resp.status = 201)
          => /\ resp.managerId = resp.uid /\ resp.uid # Null
             /\ resp.statusIn = Absent => resp.pstatus = "active"

C13_Witness ==
    /\ variant = "token" /\ resp.op = "createProject" /\ resp.status = 201
    /\ resp.role = "manager" /\ resp.statusIn = Absent /\ resp.pstatus = "active"
    /\ \E u \in users : u.id = resp.uid /\ u.role = "manager"
    /\ \E i \in issued : i.via = "login" /\ i.tok.id = resp.uid
    /\ \E p \in projects : p.id = resp.id /\ p.managerId = resp.uid

\* What the middleware of the other variant answers the same user (same id
\* and stored role, logged in) for the same operation: 0 when it lets the
\* request through
OtherVariantGuard(op, userId, role) ==
    IF variant = "session"
    THEN JwtChain(Sign([id |-> userId, name |-> "", email |-> "", role |-> role]),
                  JwtNeed(op))
    ELSE SessChain(userId)

\* C14: a request of a logged-in user is denied by the running variant
\* exactly when the other variant denies the same user the same operation.
C14_VariantsAgree ==
    (resp.op \in PolicyOps /\ Authenticated /\ resp.role \in Roles)
        => ((resp.status \in {401, 403})
              <=> (OtherVariantGuard(resp.op, resp.uid, resp.role) # 0))

\* C15: every stored User.role is employee, manager or admin and every
\* stored Task.priority is low, medium or high; a register, create-task or
\* update-task request that carries another value is answered with a
\* validation error and changes no row.
C15_ClosedEnumerations ==
    /\ \A u \in users : u.role \in Roles
    /\ \A t \in tasks : t.priority \in Priorities
    /\ (resp.op \in {"register", "createTask", "updateTask"} /\ resp.invalid)
          => (resp.status \in {400, 422} /\ ~resp.changed)

\* C16: a successful DELETE /api/projects/:id removes the Project row of
\* that id and no other, and leaves every Task row (those of the deleted
\* project included) and every User row as it was.
\* (the step of a request that is answered at once with that response)
DeleteProjectStep ==
    /\ nreq' = nreq + 1 /\ inflight' = inflight
    /\ resp'.op = "deleteProject" /\ resp'.status = 200

C16_DeleteProjectFrame ==
    [][DeleteProjectStep =>
          /\ projects' = {p \in projects : p.id # resp'.id}
          /\ Cardinality(projects') = Cardinality(projects) - 1
          /\ tasks' = tasks
          /\ users' = users]_vars

C16_Witness ==
    /\ resp.op = "deleteProject" /\ resp.status = 200
    /\ ~ProjectExists(resp.id)
    /\ \E t \in tasks : t.projectId = resp.id

\* C17: no request is left without a response: a handler whose call to the
\* store rejects answers (with 500) instead of leaving the request pending.
C17_EveryRequestAnswered ==
    \A r \in inflight : r.pc # "abandoned"

\* C18: no response serializes the password column of a User, and no stored
\* password is a plaintext a client supplied.
C18_PasswordNeverLeaves ==
    /\ "password" \notin resp.fields
    /\ \A u \in users : u.password \notin Passwords

C18_Witness ==
    /\ resp.op \in {"profile", "listUsers"} /\ resp.status = 200
    /\ "email" \in resp.fields
    /\ \E u \in users : u.password = Hash("pw2")

\* C19: session variant: a session reference resolves to the same user for
\* as long as it is stored; no request, a login presented with the reference
\* included, makes it resolve to another user.
C19_ReferenceKeepsIdentity ==
    [][\A s \in DOMAIN sessions :
          s \in DOMAIN sessions' => sessions'[s].userId = sessions[s].userId]_vars
====
